---- MODULE Spec2Model ----
(***************************************************************************)
(* The background process registry of oc-kit (the Bun + SQLite generation  *)
(* of the dev-server tools): the processes table, the live-handle map, the *)
(* spawned subprocesses and the tool calls in flight.                      *)
(*                                                                         *)
(* JavaScript runs one synchronous section at a time and a tool call gives *)
(* up control only at an await, so every action below is one synchronous   *)
(* section (from a call's entry or resumption to its next await or its     *)
(* return) together with the microtasks it triggers.                       *)
(*                                                                         *)
(* Left out: a row's start_time and command (rows are listed in pid order, *)
(* which is their start order), the stdout readiness probe of              *)
(* executeDevStart (it changes no registry state), the profile and         *)
(* auto-detect inputs of executeDevStartAll, and the text of the results.  *)
(*                                                                         *)
(* The one-shot executors (executeCommand, executeWithStreaming) and the   *)
(* package, docker and compose tools over them are a second state machine  *)
(* (ExecSpec), the pure functions a third (PureSpec). Left out of the      *)
(* tools: the required container, image and service parameters, the volume *)
(* mount and network checks, the dev-server hint of the package tool, and  *)
(* the output streams.                                                     *)
(***************************************************************************)
EXTENDS Integers, Sequences, FiniteSets, TLC

\* ------------------------------------------------------------------ bounds
\* Number of subprocesses the OS hands out in one behaviour.
MaxPid == 2

\* Number of tool calls made in one behaviour.
MaxCalls == 3

\* Tool calls that can be in flight at the same time.
Slots == {1, 2}

Pids == 1..MaxPid

\* Strings are sequences of tokens, so that template strings concatenate.
Scripts == {<<"dev">>, <<"dev", "-", "/a">>}
Dirs == {<<"/b">>, <<"/a", "-", "/b">>}

\* The (script, cwd) pairs tool calls name: the first two render to the same
\* key string, the third shares its script with the first and its directory
\* with the second.
Targets == {<< <<"dev">>, <<"/a", "-", "/b">> >>,
            << <<"dev", "-", "/a">>, <<"/b">> >>,
            << <<"dev">>, <<"/b">> >>}

NoScript == <<>>
NoDir == <<>>

\* The (script?, cwd) arguments of devStart, devStop and devRestart.
CallArgs == Targets \cup {<<NoScript, d>> : d \in Dirs}

\* The scripts arrays devStartAll is called with.
StartAllLists == {<<s>> : s \in Scripts} \cup
                 {q \in {<<s, t>> : s \in Scripts, t \in Scripts} : q[1] # q[2]}

\* ------------------------------------------------------ collaborators
\* The scripts a project's package.json declares (getScripts(getPackageJson)).
Manifest(cwd) ==
  IF cwd = <<"/b">> THEN {<<"dev">>} ELSE {<<"lint">>, <<"build">>}

\* The script names a package.json is probed with.
ManifestNames ==
  {<<"dev">>, <<"start">>, <<"serve">>, <<"develop">>, <<"lint">>, <<"build">>,
   <<"test">>}

devScriptCandidates == << <<"dev">>, <<"start">>, <<"serve">>, <<"develop">> >>

\* ------------------------------------------------------------- security
\* The tokens that consist of letters, digits, '_', ':' and '-' only, with
\* their lengths in characters ("/a" and "/b" hold a slash).
NameTokens ==
  {"dev", "start", "serve", "develop", "lint", "build", "-",
   "install", "postinstall", "test"}

TokenLen(tok) ==
  CASE tok = "-" -> 1
    [] tok \in {"/a", "/b"} -> 2
    [] tok = "dev" -> 3
    [] tok \in {"lint", "test"} -> 4
    [] tok \in {"start", "serve", "build"} -> 5
    [] tok \in {"develop", "install"} -> 7
    [] OTHER -> 11

RECURSIVE StrLen(_)
StrLen(s) == IF s = <<>> THEN 0 ELSE TokenLen(Head(s)) + StrLen(Tail(s))

\* MAX_LENGTHS.scriptName
MaxScriptNameLen == 100

\* validateScriptName(scriptName).valid
validateScriptName(scriptName) ==
  /\ scriptName # <<>>
  /\ StrLen(scriptName) <= MaxScriptNameLen
  /\ \A n \in 1..Len(scriptName) : scriptName[n] \in NameTokens

DEFAULT_SECURITY_CONFIG ==
  [requireConfirmation |-> TRUE, blockDangerous |-> FALSE, readOnlyMode |-> FALSE]

Allowed == [allowed |-> TRUE, requiresConfirmation |-> FALSE]
Blocked == [allowed |-> FALSE, requiresConfirmation |-> FALSE]
NeedsConfirmation == [allowed |-> TRUE, requiresConfirmation |-> TRUE]

\* DANGEROUS_SCRIPT_PATTERNS: the name ends in install, prepare or
\* prepublish (postinstall and preinstall end in install).
DangerousScript(scriptName) ==
  /\ scriptName # <<>>
  /\ scriptName[Len(scriptName)] \in
       {"install", "postinstall", "preinstall", "prepare", "prepublish"}

checkScriptGuardrails(scriptName, config) ==
  IF DangerousScript(scriptName) /\ config.blockDangerous THEN Blocked
  ELSE IF DangerousScript(scriptName) /\ config.requireConfirmation
  THEN NeedsConfirmation
  ELSE Allowed

\* Arguments are sequences of characters, so that arg.includes(...) is a
\* search for a substring.
ArgF == <<"-", "f">>
ArgForce == <<"-", "-", "f", "o", "r", "c", "e">>
ArgRm == <<"-", "-", "r", "m">>
ArgFollow == <<"-", "-", "f", "o", "l", "l", "o", "w">>
ArgAll == <<"-", "a">>
ArgConfirm == <<"-", "-", "c", "o", "n", "f", "i", "r", "m">>

\* str.includes(pat)
includes(str, pat) ==
  \E n \in 0..(Len(str) - Len(pat)) : SubSeq(str, n + 1, n + Len(pat)) = pat

\* isDestructiveOperation(action, args): a destructive action, or a force
\* flag anywhere in an argument.
isDestructiveOperation(action, args) ==
  \/ action \in {"rm", "remove", "down", "stop", "kill", "prune", "rmi", "system"}
  \/ \E n \in 1..Len(args) :
       \/ includes(args[n], ArgForce)
       \/ includes(args[n], ArgF)
       \/ includes(args[n], ArgRm)

READ_ONLY_BLOCKED_ACTIONS ==
  {"rm", "remove", "down", "stop", "kill", "prune", "rmi", "system",
   "build", "push", "up", "restart", "exec"}

PRIVILEGED_DOCKER_ACTIONS == {"build", "run", "exec", "system"}

\* The same checks with the privileged one ahead of the destructive one.
checkOperationGuardrailsPrivilegedFirst(action, args, config) ==
  IF config.readOnlyMode /\ action \in READ_ONLY_BLOCKED_ACTIONS THEN Blocked
  ELSE IF action \in PRIVILEGED_DOCKER_ACTIONS /\ config.requireConfirmation
  THEN NeedsConfirmation
  ELSE IF isDestructiveOperation(action, args) /\ config.blockDangerous THEN Blocked
  ELSE IF isDestructiveOperation(action, args) /\ config.requireConfirmation
  THEN NeedsConfirmation
  ELSE Allowed

\* checkOperationGuardrails(action, args, config): each `if` returns; a
\* destructive operation that neither flag stops falls through to the
\* privileged check.
checkOperationGuardrails(action, args, config) ==
  IF config.readOnlyMode /\ action \in READ_ONLY_BLOCKED_ACTIONS THEN Blocked
  ELSE IF isDestructiveOperation(action, args) /\ config.blockDangerous THEN Blocked
  ELSE IF isDestructiveOperation(action, args) /\ config.requireConfirmation
  THEN NeedsConfirmation
  ELSE IF action \in PRIVILEGED_DOCKER_ACTIONS /\ config.requireConfirmation
  THEN NeedsConfirmation
  ELSE Allowed

\* The inputs of the guardrail probes.
SecurityConfigs ==
  [requireConfirmation : BOOLEAN, blockDangerous : BOOLEAN, readOnlyMode : BOOLEAN]

GuardActions ==
  READ_ONLY_BLOCKED_ACTIONS \cup PRIVILEGED_DOCKER_ACTIONS
    \cup {"ps", "logs", "pull", "start"}

GuardArgs == {ArgF, ArgForce, ArgRm, ArgFollow, ArgAll, ArgConfirm}

ArgLists == {<<>>} \cup {<<a>> : a \in GuardArgs} \cup {<<a, b>> : a, b \in GuardArgs}

\* ----------------------------------------------------------- validation
\* Inputs of the validators are values with a type; a string is its
\* sequence of characters.
Str(chars) == [type |-> "string", chars |-> chars]
NotAString == [type |-> "number", chars |-> <<>>]

Whitespace == {" ", "\t", "\n", "\r"}

\* The backquote character, which a string of this notation cannot hold.
Backtick == "backquote"

\* str.trim()
RECURSIVE trimStart(_)
trimStart(str) ==
  IF str # <<>> /\ Head(str) \in Whitespace THEN trimStart(Tail(str)) ELSE str

RECURSIVE trimEnd(_)
trimEnd(str) ==
  IF str # <<>> /\ str[Len(str)] \in Whitespace
  THEN trimEnd(SubSeq(str, 1, Len(str) - 1)) ELSE str

trim(str) == trimEnd(trimStart(str))

\* str.startsWith(pat)
startsWith(str, pat) == Len(pat) <= Len(str) /\ SubSeq(str, 1, Len(pat)) = pat

\* The lower case of the letters the inputs hold in upper case (the i flag).
toLower(ch) ==
  CASE ch = "R" -> "r"
    [] ch = "M" -> "m"
    [] ch = "F" -> "f"
    [] OTHER -> ch

lowerCase(str) == [n \in 1..Len(str) |-> toLower(str[n])]

\* /pre<gap>post/ where the gap is \s+ or \s* (dot = FALSE, at least
\* minGap characters) or .* (dot = TRUE, no line terminator).
matchGap(str, pre, post, minGap, dot) ==
  \E i \in 1..Len(str), j \in 1..Len(str) :
    /\ i + Len(pre) - 1 <= Len(str)
    /\ SubSeq(str, i, i + Len(pre) - 1) = pre
    /\ j >= i + Len(pre) + minGap
    /\ j + Len(post) - 1 <= Len(str)
    /\ SubSeq(str, j, j + Len(post) - 1) = post
    /\ \A n \in (i + Len(pre))..(j - 1) :
         IF dot THEN str[n] \notin {"\n", "\r"} ELSE str[n] \in Whitespace

DANGEROUS_SHELL_CHARS ==
  {<<";">>, <<"&", "&">>, <<"|", "|">>, <<"|">>, <<">">>, <<"<">>, <<Backtick>>, <<"$">>,
   <<"(">>, <<")">>, <<"{">>, <<"}">>, <<"\\">>, <<"\"">>, <<"'">>,
   <<"\n">>, <<"\r">>, <<"\t">>}

\* INJECTION_PATTERNS, in their order.
matchesInjection(str) ==
  \/ \E n \in 1..Len(str) :
       str[n] \in {";", "&", "|", Backtick, "$", "(", ")", "{", "}", "\\"}
  \/ includes(str, <<"$", "(">>)
  \/ \E i \in 1..Len(str), j \in 1..Len(str) :
       /\ i < j
       /\ str[i] = Backtick
       /\ str[j] = Backtick
       /\ \A n \in (i + 1)..(j - 1) : str[n] # Backtick
  \/ matchGap(str, <<">">>, <<"/", "d", "e", "v">>, 0, FALSE)
  \/ matchGap(str, <<">">>, <<"/", "p", "r", "o", "c">>, 0, FALSE)
  \/ matchGap(str, <<">">>, <<"/", "s", "y", "s">>, 0, FALSE)
  \/ matchGap(lowerCase(str), <<"r", "m">>, <<"-", "r", "f">>, 1, FALSE)
  \/ matchGap(lowerCase(str), <<"c", "h", "m", "o", "d">>, <<"+", "x">>, 1, FALSE)
  \/ matchGap(str, <<"c", "u", "r", "l">>, <<"|">>, 0, TRUE)
  \/ matchGap(str, <<"w", "g", "e", "t">>, <<"|">>, 0, TRUE)

Valid(sanitized) == [valid |-> TRUE, error |-> "none", sanitized |-> sanitized]
Invalid(error) == [valid |-> FALSE, error |-> error, sanitized |-> <<>>]

\* MAX_LENGTHS.argument
MaxArgumentLen == 1000

\* validateArgument without its injection-pattern loop.
validateArgumentCharsOnly(arg, maxLength) ==
  IF arg.type # "string" \/ arg.chars = <<>> THEN Invalid("empty")
  ELSE IF Len(arg.chars) > maxLength THEN Invalid("long")
  ELSE IF \E n \in 1..Len(arg.chars) : <<arg.chars[n]>> \in DANGEROUS_SHELL_CHARS
  THEN Invalid("char")
  ELSE Valid(trim(arg.chars))

\* validateArgument(arg, maxLength): the loop over the characters of arg
\* asks the set for each single character.
validateArgument(arg, maxLength) ==
  IF arg.type # "string" \/ arg.chars = <<>> THEN Invalid("empty")
  ELSE IF Len(arg.chars) > maxLength THEN Invalid("long")
  ELSE IF \E n \in 1..Len(arg.chars) : <<arg.chars[n]>> \in DANGEROUS_SHELL_CHARS
  THEN Invalid("char")
  ELSE IF matchesInjection(arg.chars) THEN Invalid("pattern")
  ELSE Valid(trim(arg.chars))

\* The arguments validateArgument is probed with: up to three pieces, end
\* to end.
ArgPieces ==
  {<<"a">>, <<" ">>, <<";">>, <<"&">>, <<"\t">>, <<"\"">>, <<">">>,
   <<"r", "m">>, <<"R", "M">>, <<"-", "r", "f">>, <<"-", "-", "r", "m">>}

ProbeArgs ==
  {<<>>} \cup ArgPieces \cup {a \o b : a, b \in ArgPieces}
         \cup {a \o b \o c : a, b, c \in ArgPieces}

\* A maxLength some probes pass in place of the default.
ShortArgumentLen == 3

\* The null character.
Nul == "nul"

\* path.replace(/\\/g, '/').replace(/\/+/g, '/')
RECURSIVE normalizePath(_)
normalizePath(path) ==
  IF path = <<>> THEN <<>>
  ELSE LET ch == IF Head(path) = "\\" THEN "/" ELSE Head(path)
           rest == normalizePath(Tail(path))
       IN IF ch = "/" /\ rest # <<>> /\ Head(rest) = "/" THEN rest ELSE <<ch>> \o rest

DANGEROUS_PATHS ==
  << <<"/", "e", "t", "c", "/">>, <<"/", "v", "a", "r", "/">>,
     <<"/", "u", "s", "r", "/">>, <<"/", "b", "i", "n", "/">>,
     <<"/", "s", "b", "i", "n", "/">>, <<"/", "b", "o", "o", "t", "/">>,
     <<"/", "s", "y", "s", "/">>, <<"/", "p", "r", "o", "c", "/">>,
     <<"/", "d", "e", "v", "/">>, <<"/", "r", "o", "o", "t", "/">>,
     <<"/", "h", "o", "m", "e", "/">>, <<"~", "/">>, <<".", ".", "/">>, <<".", ".">> >>

\* MAX_LENGTHS.filePath
MaxFilePathLen == 500

\* validateFilePath(path): length, traversal on the normalized path, the
\* dangerous paths as prefix of the path with a trailing slash or equal to
\* the path once their last character is cut, null bytes.
validateFilePath(path) ==
  LET normalizedPath == normalizePath(path.chars)
      pathToCheck == IF normalizedPath # <<>> /\ normalizedPath[Len(normalizedPath)] = "/"
                     THEN normalizedPath ELSE normalizedPath \o <<"/">>
  IN IF path.type # "string" \/ path.chars = <<>> THEN Invalid("empty")
     ELSE IF Len(path.chars) > MaxFilePathLen THEN Invalid("long")
     ELSE IF \/ includes(normalizedPath, <<".", ".", "/">>)
             \/ includes(normalizedPath, <<".", ".", "\\">>)
     THEN Invalid("traversal")
     ELSE IF \E n \in 1..Len(DANGEROUS_PATHS) :
               \/ startsWith(pathToCheck, DANGEROUS_PATHS[n])
               \/ normalizedPath = SubSeq(DANGEROUS_PATHS[n], 1, Len(DANGEROUS_PATHS[n]) - 1)
     THEN Invalid("dangerous")
     ELSE IF includes(normalizedPath, <<Nul>>) THEN Invalid("null")
     ELSE Valid(normalizedPath)

\* The paths validateFilePath is probed with: up to four pieces, end to end.
PathPieces ==
  {<<"/">>, <<".", ".">>, <<".">>, <<"e", "t", "c">>, <<"a">>, <<"\\">>, <<"~">>, <<Nul>>}

ProbePaths ==
  PathPieces \cup {a \o b : a, b \in PathPieces}
    \cup {a \o b \o c : a, b, c \in PathPieces}
    \cup {a \o b \o c \o d : a, b, c, d \in PathPieces}

\* validateArgumentArray(args): at most 50 arguments, each of them valid;
\* the sanitized list holds the trimmed arguments in their order.
MaxArguments == 50

validateArgumentArray(args) ==
  IF Len(args) > MaxArguments THEN Invalid("many")
  ELSE IF \E n \in 1..Len(args) : ~validateArgument(args[n], MaxArgumentLen).valid
  THEN Invalid("argument")
  ELSE Valid([n \in 1..Len(args) |-> validateArgument(args[n], MaxArgumentLen).sanitized])

DANGEROUS_DOCKER_ARGS ==
  {<<"-", "-", "p", "r", "i", "v", "i", "l", "e", "g", "e", "d">>,
   <<"-", "-", "c", "a", "p", "-", "a", "d", "d">>,
   <<"-", "-", "c", "a", "p", "-", "d", "r", "o", "p">>,
   <<"-", "-", "s", "e", "c", "u", "r", "i", "t", "y", "-", "o", "p", "t">>,
   <<"-", "-", "u", "s", "e", "r", "=", "r", "o", "o", "t">>,
   <<"-", "-", "u", "s", "e", "r", "=", "0">>,
   <<"-", "-", "p", "i", "d", "=", "h", "o", "s", "t">>,
   <<"-", "-", "n", "e", "t", "w", "o", "r", "k", "=", "h", "o", "s", "t">>,
   <<"-", "-", "i", "p", "c", "=", "h", "o", "s", "t">>,
   <<"-", "-", "u", "t", "s", "=", "h", "o", "s", "t">>}

\* arg.match(/(?:-v|--volume)=?([^:]+):/)[1] for an argument that starts
\* with -v or --volume: the characters after the flag and an optional '='
\* up to the first colon; <<>> when there is no match.
volumeHostPath(chars) ==
  LET flag == IF startsWith(chars, <<"-", "-", "v", "o", "l", "u", "m", "e">>)
              THEN 8 ELSE 2
      rest == SubSeq(chars, flag + 1, Len(chars))
      from == IF Len(rest) >= 2 /\ rest[1] = "=" /\ rest[2] # ":" THEN 2 ELSE 1
      colons == {n \in from..Len(rest) : rest[n] = ":"}
  IN IF colons = {} THEN <<>>
     ELSE SubSeq(rest, from, (CHOOSE n \in colons : \A k \in colons : n <= k) - 1)

\* validateDockerArgs(args): the list validation, then for each argument as
\* it was passed the blacklist and the host path of a volume mount.
validateDockerArgs(args) ==
  IF ~validateArgumentArray(args).valid THEN validateArgumentArray(args)
  ELSE IF \E n \in 1..Len(args) : args[n].chars \in DANGEROUS_DOCKER_ARGS
  THEN Invalid("flag")
  ELSE IF \E n \in 1..Len(args) :
            /\ \/ startsWith(args[n].chars, <<"-", "v">>)
               \/ startsWith(args[n].chars, <<"-", "-", "v", "o", "l", "u", "m", "e">>)
            /\ volumeHostPath(args[n].chars) # <<>>
            /\ ~validateFilePath(Str(volumeHostPath(args[n].chars))).valid
  THEN Invalid("volume")
  ELSE validateArgumentArray(args)

\* The container path of the same match with :([^:]+) after the host path:
\* the characters between the first colon and the next, or the end.
volumeContainerPath(chars) ==
  LET first == CHOOSE n \in 1..Len(chars) :
                 chars[n] = ":" /\ \A k \in 1..(n - 1) : chars[k] # ":"
      rest == SubSeq(chars, first + 1, Len(chars))
      colons == {n \in 1..Len(rest) : rest[n] = ":"}
  IN IF colons = {} THEN rest
     ELSE SubSeq(rest, 1, (CHOOSE n \in colons : \A k \in colons : n <= k) - 1)

dangerousHostPaths ==
  {<<"/", "v", "a", "r", "/", "r", "u", "n", "/", "d", "o", "c", "k", "e", "r", ".", "s", "o", "c", "k">>,
   <<"/", "p", "r", "o", "c">>,
   <<"/", "s", "y", "s">>,
   <<"/", "d", "e", "v">>,
   <<"/", "e", "t", "c">>,
   <<"/", "v", "a", "r">>,
   <<"/", "u", "s", "r">>,
   <<"/", "b", "i", "n">>,
   <<"/", "s", "b", "i", "n">>,
   <<"/", "b", "o", "o", "t">>,
   <<"/", "r", "o", "o", "t">>,
   <<"/", "h", "o", "m", "e">>}

\* The argument is a volume flag whose pattern matches.
isVolumeMount(chars) ==
  /\ \/ startsWith(chars, <<"-", "v">>)
     \/ startsWith(chars, <<"-", "-", "v", "o", "l", "u", "m", "e">>)
  /\ volumeHostPath(chars) # <<>>
  /\ volumeContainerPath(chars) # <<>>

\* checkDockerVolumeMounts(args): the first argument that is blocked or
\* needs confirmation decides.
RECURSIVE checkDockerVolumeMounts(_)
checkDockerVolumeMounts(args) ==
  IF args = <<>> THEN Allowed
  ELSE LET chars == Head(args).chars
       IN IF isVolumeMount(chars)
             /\ \E d \in dangerousHostPaths : startsWith(volumeHostPath(chars), d)
          THEN Blocked
          ELSE IF isVolumeMount(chars)
                  /\ \/ volumeContainerPath(chars) = <<"/">>
                     \/ startsWith(volumeContainerPath(chars), <<"/", "e", "t", "c">>)
                     \/ startsWith(volumeContainerPath(chars), <<"/", "v", "a", "r">>)
          THEN NeedsConfirmation
          ELSE checkDockerVolumeMounts(Tail(args))

\* The argument lists the docker validators are probed with: up to two of
\* these elements, and a list of 51.
DockerArgElements ==
  {<<"-", "-", "p", "r", "i", "v", "i", "l", "e", "g", "e", "d">>,
   <<" ", "-", "-", "p", "r", "i", "v", "i", "l", "e", "g", "e", "d">>,
   <<"-", "-", "p", "r", "i", "v", "i", "l", "e", "g", "e", "d", "=", "t", "r", "u", "e">>,
   <<"-", "-", "c", "a", "p", "-", "a", "d", "d">>,
   <<"-", "v", "=", "/", "e", "t", "c", ":", "/", "x">>,
   <<"-", "v", "=", "a", ":", "/", "x">>,
   <<"-", "v", "=", "a", ":", "/">>,
   <<"-", "v">>,
   <<"/", "e", "t", "c", ":", "/", "x">>,
   <<"-", "a">>,
   <<";">>}

DockerArgLists ==
  {<<>>} \cup {<<Str(a)>> : a \in DockerArgElements}
         \cup {<<Str(a), Str(b)>> : a, b \in DockerArgElements}
         \cup {[n \in 1..(MaxArguments + 1) |-> Str(ArgAll)]}

\* ------------------------------------------------------------- registry
getProcessKey(script, cwd) == script \o <<"-">> \o cwd

KeyStrs ==
  {getProcessKey(s, c) :
     s \in Scripts \cup {devScriptCandidates[n] : n \in 1..Len(devScriptCandidates)},
     c \in Dirs}

NoKey == <<>>

\* Every (script, cwd) pair a process can be registered for.
Pairs == {<<s, c>> : s \in Scripts, c \in Dirs}

NoRow == [script |-> NoScript, cwd |-> NoDir, pid |-> 0]

VARIABLES
  db,        \* the processes table: id -> row (NoRow: no row with that id)
  objects,   \* processObjects: id -> pid of the Subprocess handle (0: absent)
  procs,     \* pid -> the subprocess: its state and its exit callback's key
  nextPid,   \* the pid the next spawn gets
  ncalls,    \* tool calls made so far
  calls,     \* slot -> the tool call running in it
  started,   \* history: (script, cwd) -> pid the last completed devStart
             \* returned as started, 0 once a devStop or devRestart was
             \* called for the pair
  raced,     \* history: the key on which the last call made overlapped, as
             \* a single devStop with a devStart or the reverse (else NoKey)
  probe,     \* the last application of a pure function: its name, its
             \* input and its result
  exec,      \* a one-shot command run by executeCommand or
             \* executeWithStreaming: its subprocess, timers and outcome
  dop        \* the doppler capabilities cache, the detection in flight and
             \* the wrapWithDoppler calls

registryVars == <<db, objects, procs, nextPid, ncalls, calls, started, raced>>

vars ==
  <<db, objects, procs, nextPid, ncalls, calls, started, raced, probe, exec, dop>>

NoProbe == [fn |-> "none", in |-> <<>>, out |-> <<>>]

\* The outcome of a one-shot command: still pending, a result record
\* (exitCode, and what stderr reports), or a rejected promise.
NoOutcome == [kind |-> "pending", exitCode |-> 0, err |-> "none"]

IdleExec ==
  [mode |-> "none", command |-> "none", pc |-> "idle", st |-> "none", code |-> 0,
   isTimedOut |-> FALSE, timers |-> {}, termSent |-> FALSE, killSent |-> FALSE,
   spawnFailed |-> FALSE, outcome |-> NoOutcome,
   tool |-> "none", action |-> "none", script |-> <<>>, args |-> <<>>,
   reply |-> "none"]

\* dopplerCapabilitiesCache (NoCaps: null), dopplerCacheDir and the
\* directory whose detection dopplerCachePromise stands for (NoDir: null),
\* and the wrapWithDoppler calls: their arguments, whether they wait for the
\* detection, and what they returned.
NoCaps == [available |-> FALSE, hasConfig |-> FALSE]

IdleWrap ==
  [pc |-> "idle", dir |-> NoDir, action |-> "none", skipDoppler |-> FALSE,
   wrapped |-> FALSE]

IdleDop ==
  [cache |-> NoCaps, cacheDir |-> NoDir, inflight |-> NoDir,
   calls |-> [i \in Slots |-> IdleWrap]]

\* A subprocess is "unborn" before its spawn, then "alive"; "dead" once the
\* OS process is gone and the runtime has not delivered the exit yet;
\* "exited" once the runtime has set exitCode and resolved proc.exited.
World == [db |-> db, objects |-> objects, procs |-> procs]

\* isProcessRunning reads the handle only: !proc.killed && exitCode === null.
isProcessRunning(P, pid) == P[pid].st # "exited"

\* proc.kill(sig): sig 9 is SIGKILL, anything else the graceful SIGTERM. hon
\* is the set of processes that end when they get the graceful signal; the
\* others ignore it or take their time (they end by Die, or never).
kill(P, pid, sig, hon) ==
  IF P[pid].st = "alive" /\ (sig = 9 \/ pid \in hon)
  THEN [P EXCEPT ![pid].st = "dead"]
  ELSE P

cleanupRegistry(W) ==
  LET gone == {k \in KeyStrs : /\ W.db[k] # NoRow
                               /\ \/ W.objects[k] = 0
                                  \/ ~isProcessRunning(W.procs, W.objects[k])}
  IN [W EXCEPT !.db = [k \in KeyStrs |-> IF k \in gone THEN NoRow ELSE W.db[k]],
               !.objects = [k \in KeyStrs |-> IF k \in gone THEN 0 ELSE W.objects[k]]]

\* A registration that writes the row and forgets the handle.
registerRowOnly(W, script, cwd, pid) ==
  [W EXCEPT !.db[getProcessKey(script, cwd)] =
              [script |-> script, cwd |-> cwd, pid |-> pid]]

registerProcess(W, script, cwd, pid) ==
  LET processKey == getProcessKey(script, cwd)
  IN [W EXCEPT !.db[processKey] = [script |-> script, cwd |-> cwd, pid |-> pid],
               !.objects[processKey] = pid]

unregisterProcess(W, script, cwd) ==
  LET processKey == getProcessKey(script, cwd)
  IN [W EXCEPT !.db[processKey] = NoRow, !.objects[processKey] = 0]

\* Returns the handle found (0: null) and the world after the orphan clean-up.
getRegisteredProcess(W, script, cwd) ==
  LET processKey == getProcessKey(script, cwd)
  IN IF W.db[processKey] # NoRow /\ W.objects[processKey] # 0
     THEN [pid |-> W.objects[processKey], w |-> W]
     ELSE [pid |-> 0, w |-> unregisterProcess(W, script, cwd)]

getAllProcesses(W) == {k \in KeyStrs : W.db[k] # NoRow}

\* The SQL statements devQuery is called with: a SELECT, and
\* DELETE FROM processes WHERE id = <key> for every key.
Queries == {[kind |-> "select", id |-> NoKey]} \cup
           {[kind |-> "delete", id |-> k] : k \in KeyStrs}

\* executeProcessQuery runs the statement on the processes table alone.
executeProcessQuery(W, q) ==
  IF q.kind = "delete" THEN [W EXCEPT !.db[q.id] = NoRow] ELSE W

\* ---------------------------------------------------------------- calls
\* A tool call: its arguments (script, cwd), where it is suspended (pc) and
\* its locals: dev (devScript of the executeDevStart it is in), queue (the
\* scripts still to start), h (the handle a single stop awaits), old (the
\* handle devRestart found), rows (allProcesses as a bulk stop read it).
IdleCall ==
  [op |-> "idle", pc |-> "idle", script |-> NoScript, cwd |-> NoDir,
   dev |-> NoScript, queue |-> <<>>, h |-> 0, old |-> 0, rows |-> {}]

NewCall(op, script, cwd) ==
  [IdleCall EXCEPT !.op = op, !.pc = "entry", !.script = script, !.cwd = cwd,
                   !.dev = script]

InFlight(c) == c.pc # "idle"

\* The call has returned: its locals are gone, its slot is free again.
Returned(c) == IdleCall

RECURSIVE StartEnter(_, _), StartCheck(_, _), AfterStart(_, _)

\* What the caller of executeDevStart does once it has returned: devStartAll
\* waits 100 ms, a bulk devRestart starts the next script, the others return.
AfterStart(W, c) ==
  IF c.op = "startAll"
  THEN [w |-> W, c |-> [c EXCEPT !.pc = "pause"]]
  ELSE IF c.op = "restart" /\ c.script = NoScript /\ c.queue # <<>>
  THEN StartEnter(W, [c EXCEPT !.dev = Head(c.queue), !.queue = Tail(c.queue)])
  ELSE [w |-> W, c |-> Returned(c)]

\* executeDevStart from the existence check to the next await or the
\* "already running" return.
StartCheck(W, c) ==
  LET g == getRegisteredProcess(W, c.dev, c.cwd)
  IN IF g.pid # 0 /\ isProcessRunning(g.w.procs, g.pid)
     THEN AfterStart(g.w, c)
     ELSE [w |-> IF g.pid # 0 THEN unregisterProcess(g.w, c.dev, c.cwd) ELSE g.w,
           c |-> [c EXCEPT !.pc = "pm"]]

\* A resolution that takes the last candidate the manifest declares.
StartResolveLast(W, c, scripts) ==
  LET found == {n \in 1..Len(devScriptCandidates) : devScriptCandidates[n] \in scripts}
  IN IF found = {}
     THEN AfterStart(W, c)
     ELSE LET n == CHOOSE x \in found : \A y \in found : x >= y
          IN StartCheck(W, [c EXCEPT !.dev = devScriptCandidates[n]])

\* executeDevStart after await getPackageJson: the first candidate the
\* manifest declares, then the existence check; without one, return the
\* message that lists the declared scripts.
StartResolve(W, c, scripts) ==
  LET found == {n \in 1..Len(devScriptCandidates) : devScriptCandidates[n] \in scripts}
  IN IF found = {}
     THEN AfterStart(W, c)
     ELSE LET n == CHOOSE x \in found : \A y \in found : x <= y
          IN StartCheck(W, [c EXCEPT !.dev = devScriptCandidates[n]])

\* executeDevStart from its entry to its first await.
StartEnter(W, c) ==
  LET W1 == cleanupRegistry(W)
  IN IF c.dev = NoScript
     THEN [w |-> W1, c |-> [c EXCEPT !.pc = "manifest"]]
     ELSE StartCheck(W1, c)

\* What the caller of executeDevStop does once it has returned: devRestart
\* waits for its settle delay, devStop returns.
AfterStop(W, c) ==
  IF c.op = "restart"
  THEN [w |-> W, c |-> [c EXCEPT !.pc = "settle"]]
  ELSE [w |-> W, c |-> Returned(c)]

\* A single stop that signals, unregisters and returns without awaiting
\* proc.exited.
StopSignalNoAwait(W, c, pid, hon) ==
  AfterStop(unregisterProcess([W EXCEPT !.procs = kill(W.procs, pid, 15, hon)],
                              c.script, c.cwd),
            [c EXCEPT !.h = pid])

\* Single stop, from the graceful signal to the await of proc.exited.
StopSignal(W, c, pid, hon) ==
  [w |-> [W EXCEPT !.procs = kill(W.procs, pid, 15, hon)],
   c |-> [c EXCEPT !.pc = "wait", !.h = pid]]

\* Bulk stop, first loop: signal and unregister every row that has a handle.
StopAllSignal(W, c, all, hon) ==
  LET withProc == {k \in all : W.objects[k] # 0}
      targets == {W.objects[k] : k \in {x \in withProc :
                     isProcessRunning(W.procs, W.objects[x])}}
      keys == {getProcessKey(W.db[k].script, W.db[k].cwd) : k \in withProc}
  IN [w |-> [db |-> [k \in KeyStrs |-> IF k \in keys THEN NoRow ELSE W.db[k]],
             objects |-> [k \in KeyStrs |-> IF k \in keys THEN 0 ELSE W.objects[k]],
             procs |-> [p \in Pids |-> IF p \in targets
                                       THEN kill(W.procs, p, 15, hon)[p]
                                       ELSE W.procs[p]]],
      c |-> [c EXCEPT !.pc = "grace",
                      !.rows = {[id |-> k, script |-> W.db[k].script,
                                 cwd |-> W.db[k].cwd, pid |-> W.db[k].pid] : k \in all}]]

\* stoppedCount of a bulk stop: the rows whose handle was running.
stoppedCount(W, all) ==
  Cardinality({k \in all : /\ W.objects[k] # 0
                           /\ isProcessRunning(W.procs, W.objects[k])})

\* Bulk stop, second loop after the grace window: force kill every handle
\* that processObjects still has under a remembered row id.
StopAllForce(W, c) ==
  LET targets == {W.objects[r.id] : r \in {x \in c.rows : W.objects[x.id] # 0}}
  IN [W EXCEPT !.procs = [p \in Pids |->
        IF p \in targets /\ isProcessRunning(W.procs, p)
        THEN kill(W.procs, p, 9, {})[p] ELSE W.procs[p]]]

\* A stop that falls through to the bulk stop when its script has no record.
StopEnterBulkOnMiss(W, c, hon) ==
  LET W1 == cleanupRegistry(W)
      all == getAllProcesses(W1)
  IN IF all = {} THEN AfterStop(W1, c)
     ELSE IF c.script # NoScript /\ getRegisteredProcess(W1, c.script, c.cwd).pid # 0
     THEN StopSignal(W1, c, getRegisteredProcess(W1, c.script, c.cwd).pid, hon)
     ELSE StopAllSignal(W1, c, all, hon)

\* executeDevStop from its entry to its first await or its return.
StopEnter(W, c, hon) ==
  LET W1 == cleanupRegistry(W)
      all == getAllProcesses(W1)
  IN IF all = {} THEN AfterStop(W1, c)
     ELSE IF c.script # NoScript
     THEN LET g == getRegisteredProcess(W1, c.script, c.cwd)
          IN IF g.pid = 0 THEN AfterStop(g.w, c)
             ELSE IF ~isProcessRunning(g.w.procs, g.pid)
             THEN AfterStop(unregisterProcess(g.w, c.script, c.cwd), c)
             ELSE StopSignal(g.w, c, g.pid, hon)
     ELSE StopAllSignal(W1, c, all, hon)

\* The processes executeDevStatus lists.
StatusListing(W) ==
  LET W1 == cleanupRegistry(W)
  IN {W1.objects[k] : k \in {x \in getAllProcesses(W1) :
        W1.objects[x] # 0 /\ isProcessRunning(W1.procs, W1.objects[x])}}

\* executeDevRestart from its entry to its first await or its return.
RestartEnter(W, c, hon) ==
  LET W1 == cleanupRegistry(W)
  IN IF c.script # NoScript
     THEN LET g == getRegisteredProcess(W1, c.script, c.cwd)
          IN IF g.pid = 0 THEN StartEnter(g.w, c)
             ELSE StopEnter(g.w, [c EXCEPT !.old = g.pid], hon)
     ELSE IF getAllProcesses(W1) = {} THEN [w |-> W1, c |-> Returned(c)]
     ELSE StopEnter(W1, c, hon)

\* scriptsToRestart: the scripts of the remembered rows, in row order.
RECURSIVE ScriptsOf(_)
ScriptsOf(rows) ==
  IF rows = {} THEN <<>>
  ELSE LET r == CHOOSE x \in rows : \A y \in rows : x.pid <= y.pid
       IN <<r.script>> \o ScriptsOf(rows \ {r})

\* ------------------------------------------------------------------ Init
Init ==
  /\ db = [k \in KeyStrs |-> NoRow]
  /\ objects = [k \in KeyStrs |-> 0]
  /\ procs = [p \in Pids |-> [st |-> "unborn", script |-> NoScript, cwd |-> NoDir]]
  /\ nextPid = 1
  /\ ncalls = 0
  /\ calls = [i \in Slots |-> IdleCall]
  /\ started = [t \in Pairs |-> 0]
  /\ raced = NoKey
  /\ probe = NoProbe
  /\ exec = IdleExec
  /\ dop = IdleDop

\* --------------------------------------------------------------- actions
Commit(i, m) ==
  /\ db' = m.w.db
  /\ objects' = m.w.objects
  /\ procs' = m.w.procs
  /\ calls' = [calls EXCEPT ![i] = m.c]

\* A new tool call takes the first free slot (slots have no identity).
Invoke(i) ==
  /\ ~InFlight(calls[i])
  /\ \A j \in Slots : j < i => InFlight(calls[j])
  /\ ncalls < MaxCalls
  /\ ncalls' = ncalls + 1

\* A devStart for key k is in flight in another slot, past its check.
StartInFlight(i, k) ==
  \E j \in Slots \ {i} : /\ calls[j].op = "start"
                         /\ calls[j].pc \in {"pm", "doppler"}
                         /\ getProcessKey(calls[j].dev, calls[j].cwd) = k

\* A single devStop for key k is in flight in another slot.
StopInFlight(i, k) ==
  \E j \in Slots \ {i} : /\ calls[j].op = "stop"
                         /\ calls[j].pc = "wait"
                         /\ getProcessKey(calls[j].script, calls[j].cwd) = k

DevStart(i) ==
  \E a \in CallArgs :
    /\ Invoke(i)
    /\ Commit(i, StartEnter(World, NewCall("start", a[1], a[2])))
    /\ raced' = IF a[1] # NoScript /\ StopInFlight(i, getProcessKey(a[1], a[2]))
                THEN getProcessKey(a[1], a[2]) ELSE NoKey
    /\ UNCHANGED <<probe, exec, dop, nextPid, started>>

\* After await getPackageJson: pick the script, then the existence check.
StartManifest(i) ==
  /\ calls[i].pc = "manifest"
  /\ Commit(i, StartResolve(World, calls[i], Manifest(calls[i].cwd)))
  /\ UNCHANGED <<probe, exec, dop, nextPid, ncalls, started, raced>>

\* After await detectPackageManager.
StartPm(i) ==
  /\ calls[i].pc = "pm"
  /\ calls' = [calls EXCEPT ![i].pc = "doppler"]
  /\ UNCHANGED <<probe, exec, dop, db, objects, procs, nextPid, ncalls, started, raced>>

\* After await wrapWithDoppler: Bun.spawn succeeds, then register and return.
StartSpawn(i) ==
  /\ calls[i].pc = "doppler"
  /\ nextPid <= MaxPid
  /\ LET c == calls[i]
         pid == nextPid
         W1 == [World EXCEPT !.procs[pid] =
                  [st |-> "alive", script |-> c.dev, cwd |-> c.cwd]]
     IN /\ Commit(i, AfterStart(registerProcess(W1, c.dev, c.cwd, pid), c))
        /\ started' = IF c.op = "start"
                      THEN [started EXCEPT ![<<c.dev, c.cwd>>] = pid]
                      ELSE started
  /\ nextPid' = nextPid + 1
  /\ UNCHANGED <<probe, exec, dop, ncalls, raced>>

\* After await wrapWithDoppler: Bun.spawn throws or yields no pid.
StartSpawnFails(i) ==
  /\ calls[i].pc = "doppler"
  /\ Commit(i, AfterStart(World, calls[i]))
  /\ UNCHANGED <<probe, exec, dop, nextPid, ncalls, started, raced>>

Stopped(a) ==
  IF a[1] = NoScript THEN [t \in Pairs |-> 0]
  ELSE [started EXCEPT ![a] = 0]

DevStop(i) ==
  \E a \in CallArgs, hon \in SUBSET Pids :
    /\ Invoke(i)
    /\ Commit(i, StopEnter(World, NewCall("stop", a[1], a[2]), hon))
    /\ started' = Stopped(a)
    /\ raced' = IF a[1] # NoScript /\ StartInFlight(i, getProcessKey(a[1], a[2]))
                THEN getProcessKey(a[1], a[2]) ELSE NoKey
    /\ UNCHANGED <<probe, exec, dop, nextPid>>

\* Bulk stop after its 1500 ms grace window.
StopGrace(i) ==
  /\ calls[i].pc = "grace"
  /\ Commit(i, AfterStop(StopAllForce(World, calls[i]), calls[i]))
  /\ UNCHANGED <<probe, exec, dop, nextPid, ncalls, started, raced>>

DevStatus(i) ==
  \E cwd \in Dirs :
    /\ Invoke(i)
    /\ Commit(i, [w |-> cleanupRegistry(World),
                  c |-> Returned(NewCall("status", NoScript, cwd))])
    /\ raced' = NoKey
    /\ UNCHANGED <<probe, exec, dop, nextPid, started>>

DevRestart(i) ==
  \E a \in CallArgs, hon \in SUBSET Pids :
    /\ Invoke(i)
    /\ Commit(i, RestartEnter(World, NewCall("restart", a[1], a[2]), hon))
    /\ started' = Stopped(a)
    /\ raced' = NoKey
    /\ UNCHANGED <<probe, exec, dop, nextPid>>

\* devRestart after its settle delay: start again.
RestartSettle(i) ==
  /\ calls[i].pc = "settle"
  /\ LET c == calls[i]
         q == ScriptsOf(c.rows)
     IN IF c.script # NoScript
        THEN Commit(i, StartEnter(World, c))
        ELSE IF q = <<>>
        THEN Commit(i, [w |-> World, c |-> Returned(c)])
        ELSE Commit(i, StartEnter(World, [c EXCEPT !.dev = Head(q), !.queue = Tail(q)]))
  /\ UNCHANGED <<probe, exec, dop, nextPid, ncalls, started, raced>>

DevStartAll(i) ==
  \E q \in StartAllLists, cwd \in Dirs :
    /\ Invoke(i)
    /\ Commit(i, StartEnter(World,
         [NewCall("startAll", NoScript, cwd) EXCEPT !.dev = Head(q), !.queue = Tail(q)]))
    /\ raced' = NoKey
    /\ UNCHANGED <<probe, exec, dop, nextPid, started>>

\* devStartAll after the 100 ms delay that follows each start.
StartAllPause(i) ==
  /\ calls[i].pc = "pause"
  /\ LET c == calls[i]
     IN IF c.queue = <<>>
        THEN Commit(i, [w |-> World, c |-> Returned(c)])
        ELSE Commit(i, StartEnter(World,
               [c EXCEPT !.dev = Head(c.queue), !.queue = Tail(c.queue)]))
  /\ UNCHANGED <<probe, exec, dop, nextPid, ncalls, started, raced>>

\* executeDevQuery has no await: sweep, run the statement, return.
DevQuery(i) ==
  \E q \in Queries, cwd \in Dirs :
    /\ Invoke(i)
    /\ Commit(i, [w |-> executeProcessQuery(cleanupRegistry(World), q),
                  c |-> Returned(NewCall("query", NoScript, cwd))])
    /\ raced' = NoKey
    /\ UNCHANGED <<probe, exec, dop, nextPid, started>>

\* The OS process ends: on its own, by an external kill, or late after a
\* graceful signal.
Die(p) ==
  /\ procs[p].st = "alive"
  /\ procs' = [procs EXCEPT ![p].st = "dead"]
  /\ UNCHANGED <<probe, exec, dop, db, objects, nextPid, ncalls, calls, started, raced>>

\* The runtime delivers the exit: exitCode is set, proc.exited resolves and
\* its reactions run in the order they were attached: the unregister
\* callback of executeDevStart, then every devStop that awaits the process.
ExitNotify(p) ==
  /\ procs[p].st = "dead"
  /\ LET W1 == [World EXCEPT !.procs[p].st = "exited"]
         W2 == unregisterProcess(W1, procs[p].script, procs[p].cwd)
         waiting == {i \in Slots : calls[i].pc = "wait" /\ calls[i].h = p}
         keys == {getProcessKey(calls[i].script, calls[i].cwd) : i \in waiting}
         W3 == [W2 EXCEPT
                  !.db = [k \in KeyStrs |-> IF k \in keys THEN NoRow ELSE W2.db[k]],
                  !.objects = [k \in KeyStrs |-> IF k \in keys THEN 0 ELSE W2.objects[k]]]
     IN /\ db' = W3.db
        /\ objects' = W3.objects
        /\ procs' = W3.procs
        /\ calls' = [i \in Slots |->
                       IF i \in waiting THEN AfterStop(W3, calls[i]).c ELSE calls[i]]
  /\ UNCHANGED <<probe, exec, dop, nextPid, ncalls, started, raced>>

Next ==
  \/ \E i \in Slots : DevStart(i)
  \/ \E i \in Slots : StartManifest(i)
  \/ \E i \in Slots : StartPm(i)
  \/ \E i \in Slots : StartSpawn(i)
  \/ \E i \in Slots : StartSpawnFails(i)
  \/ \E i \in Slots : DevStop(i)
  \/ \E i \in Slots : StopGrace(i)
  \/ \E i \in Slots : DevStatus(i)
  \/ \E i \in Slots : DevRestart(i)
  \/ \E i \in Slots : RestartSettle(i)
  \/ \E i \in Slots : DevStartAll(i)
  \/ \E i \in Slots : StartAllPause(i)
  \/ \E i \in Slots : DevQuery(i)
  \/ \E p \in Pids : Die(p)
  \/ \E p \in Pids : ExitNotify(p)

Spec == Init /\ [][Next]_vars

\* ------------------------------------------------------- pure functions
\* executeDevStart with no script on an empty registry, for every manifest.
ProbeResolve ==
  \E scripts \in SUBSET ManifestNames, cwd \in Dirs :
    /\ probe' = [fn |-> "resolve", in |-> scripts,
                 out |-> StartResolve(World, [NewCall("start", NoScript, cwd)
                                                EXCEPT !.pc = "manifest"], scripts)]
    /\ UNCHANGED <<registryVars, exec, dop>>

\* checkOperationGuardrails for every action, argument list and config;
\* the function keeps no state, so one probe does not follow another.
ProbeGuardrails ==
  \E action \in GuardActions, args \in ArgLists, config \in SecurityConfigs :
    /\ probe.fn # "guardrails"
    /\ probe' = [fn |-> "guardrails",
                 in |-> [action |-> action, args |-> args, config |-> config],
                 out |-> checkOperationGuardrails(action, args, config)]
    /\ UNCHANGED <<registryVars, exec, dop>>

PureNext ==
  \/ ProbeResolve
  \/ ProbeGuardrails

PureSpec == Init /\ [][PureNext]_vars

\* ------------------------------------------------------------- doppler
\* isReadOnlyAction, over the actions the model draws from.
isReadOnlyAction(action) == action \in {"ps", "logs"}

\* detectDopplerCapabilities(dir): the CLI is installed; the project in /b
\* has a doppler config, the other one has none.
detectDopplerCapabilities(dir) == [available |-> TRUE, hasConfig |-> dir = <<"/b">>]

\* wrapWithDoppler once it has the capabilities: the command is prefixed
\* when doppler is available and configured and the action is not read-only.
wrapDecision(capabilities, action) ==
  capabilities.available /\ capabilities.hasConfig /\ ~isReadOnlyAction(action)

\* wrapWithDoppler(command, dir, skipDoppler, action) up to its await of
\* getDopplerCapabilities, which answers from the cache when the cache is
\* for dir, else hands out the promise of the detection in flight, else
\* starts the detection for dir.
WrapCall(i) ==
  \E dir \in Dirs, action \in {"ps", "push"}, skipDoppler \in BOOLEAN :
    LET c == [IdleWrap EXCEPT !.dir = dir, !.action = action,
                              !.skipDoppler = skipDoppler]
    IN /\ dop.calls[i].pc # "wait"
       /\ dop' =
            IF skipDoppler
            THEN [dop EXCEPT !.calls[i] = [c EXCEPT !.pc = "done"]]
            ELSE IF dop.cache # NoCaps /\ dop.cacheDir = dir
            THEN [dop EXCEPT !.calls[i] =
                    [c EXCEPT !.pc = "done", !.wrapped = wrapDecision(dop.cache, action)]]
            ELSE IF dop.inflight # NoDir
            THEN [dop EXCEPT !.calls[i] = [c EXCEPT !.pc = "wait"]]
            ELSE [dop EXCEPT !.calls[i] = [c EXCEPT !.pc = "wait"], !.inflight = dir]
       /\ UNCHANGED <<registryVars, probe, exec>>

\* The detection in flight settles: the call that started it stores the
\* capabilities under its directory and clears the promise, and every call
\* that waits on the promise goes on with the same capabilities.
DopplerDetected ==
  /\ dop.inflight # NoDir
  /\ LET capabilities == detectDopplerCapabilities(dop.inflight)
     IN dop' = [cache |-> capabilities, cacheDir |-> dop.inflight, inflight |-> NoDir,
                calls |-> [i \in Slots |->
                  IF dop.calls[i].pc = "wait"
                  THEN [dop.calls[i] EXCEPT
                          !.pc = "done",
                          !.wrapped = wrapDecision(capabilities, dop.calls[i].action)]
                  ELSE dop.calls[i]]]
  /\ UNCHANGED <<registryVars, probe, exec>>

DopplerNext ==
  \/ \E i \in Slots : WrapCall(i)
  \/ DopplerDetected

DopplerSpec == Init /\ [][DopplerNext]_vars

\* --------------------------------------------------------- validators
\* validateArgument for every probe argument, under the default and a
\* short maximum length, and for a value that is not a string.
ProbeArgument ==
  \E arg \in {Str(c) : c \in ProbeArgs} \cup {NotAString},
     maxLength \in {MaxArgumentLen, ShortArgumentLen} :
    /\ probe = NoProbe
    /\ probe' = [fn |-> "argument", in |-> [arg |-> arg, maxLength |-> maxLength],
                 out |-> validateArgument(arg, maxLength)]
    /\ UNCHANGED <<registryVars, exec, dop>>

\* validateFilePath for every probe path.
ProbeFilePath ==
  \E path \in {Str(c) : c \in ProbePaths} :
    /\ probe = NoProbe
    /\ probe' = [fn |-> "filePath", in |-> path, out |-> validateFilePath(path)]
    /\ UNCHANGED <<registryVars, exec, dop>>

\* validateDockerArgs for every probe list.
ProbeDockerArgs ==
  \E args \in DockerArgLists :
    /\ probe = NoProbe
    /\ probe' = [fn |-> "dockerArgs", in |-> args, out |-> validateDockerArgs(args)]
    /\ UNCHANGED <<registryVars, exec, dop>>

\* checkDockerVolumeMounts for every probe list.
ProbeVolumeMounts ==
  \E args \in DockerArgLists :
    /\ probe = NoProbe
    /\ probe' = [fn |-> "volumeMounts", in |-> args, out |-> checkDockerVolumeMounts(args)]
    /\ UNCHANGED <<registryVars, exec, dop>>

ValidateNext ==
  \/ ProbeArgument
  \/ ProbeFilePath
  \/ ProbeDockerArgs
  \/ ProbeVolumeMounts

ValidateSpec == Init /\ [][ValidateNext]_vars

\* What the scheduling guarantees: an awaited promise or timer resumes its
\* call, and the runtime delivers the exit of a process that is gone.
\* Nothing obliges a process to end, or a user to make a call.
FairSpec ==
  /\ Spec
  /\ \A i \in Slots : /\ WF_vars(StartManifest(i))
                      /\ WF_vars(StartPm(i))
                      /\ WF_vars(StartSpawn(i) \/ StartSpawnFails(i))
                      /\ WF_vars(StopGrace(i))
                      /\ WF_vars(RestartSettle(i))
                      /\ WF_vars(StartAllPause(i))
  /\ \A p \in Pids : WF_vars(ExitNotify(p))

\* ------------------------------------------------------ one-shot commands
\* The commands run, and the exit codes they end with on their own.
Commands == {"npm", "docker", "docker-compose"}
ExitCodes == {0, 1}

\* The tools that run a one-shot command, with the command each builds,
\* and the inputs they are called with.
Tools == {"package", "docker", "compose"}

ToolCommand(tool) ==
  CASE tool = "package" -> "npm"
    [] tool = "docker" -> "docker"
    [] OTHER -> "docker-compose"

ToolActions(tool) ==
  CASE tool = "package" -> {"run"}
    [] tool = "docker" -> {"ps", "logs", "rm", "push"}
    [] OTHER -> {"ps", "down", "push"}

ToolScripts(tool) ==
  IF tool = "package" THEN {<<"lint">>, <<"postinstall">>, <<"dev", "-", "/a">>}
  ELSE {<<>>}

ToolArgLists == {<<>>, <<ArgConfirm>>}

\* What detection (docker capabilities, workspaces) can come to.
Detections == {"ok", "unavailable", "fails"}

\* executePackageScript before its first await: validateScriptName, then
\* checkScriptGuardrails; the arguments pass validateArgumentArray.
packageCheck(script) ==
  IF ~validateScriptName(script) THEN "invalid"
  ELSE IF ~checkScriptGuardrails(script, DEFAULT_SECURITY_CONFIG).allowed THEN "blocked"
  ELSE IF checkScriptGuardrails(script, DEFAULT_SECURITY_CONFIG).requiresConfirmation
  THEN "warning"
  ELSE "ok"

\* buildDockerCommand and buildComposeCommand up to the command: the
\* guardrails are asked about the action and the arguments, whatever the
\* arguments hold; the arguments pass validateDockerArgs and the mount and
\* network checks.
buildCommand(action, args) ==
  IF ~checkOperationGuardrails(action, args, DEFAULT_SECURITY_CONFIG).allowed
  THEN "blocked"
  ELSE IF checkOperationGuardrails(action, args, DEFAULT_SECURITY_CONFIG).requiresConfirmation
  THEN "warning"
  ELSE "ok"

\* wrapWithDoppler: read-only actions are never wrapped; the others are
\* when doppler is available and configured.
finalCommands(tool, action, script) ==
  IF tool = "package" \/ ~isReadOnlyAction(action)
  THEN {ToolCommand(tool), "doppler"}
  ELSE {ToolCommand(tool)}

\* useStreaming: shouldUseStreaming(command, args) for a long-running
\* command or an argument that holds a long-running script name, or one of
\* the tool's streaming actions.
useStreaming(tool, command, action) ==
  \/ command \in {"npm", "docker", "docker-compose"}
  \/ tool = "docker" /\ action \in {"build", "pull", "logs", "run"}
  \/ tool = "compose" /\ action \in {"up", "build", "pull", "logs"}

\* The text a tool returns for what its executor call came to: the three
\* tools format a result; executePackageScript and executeComposeCommand
\* catch a rejection and return 'Error ...', executeDockerCommand has no
\* catch and rejects with it.
toolReply(tool, outcome) ==
  IF outcome.kind = "result" THEN "result"
  ELSE IF tool = "docker" THEN "thrown"
  ELSE "error"

\* The awaiting tool resumes as soon as its executor call has settled.
Settle(e) ==
  IF e.tool # "none" /\ e.reply = "none" /\ e.outcome.kind # "pending"
  THEN [e EXCEPT !.reply = toolReply(e.tool, e.outcome)]
  ELSE e

\* Who calls the executor: a direct caller, or a tool whose command is
\* built, with the command and the mode the tool chooses.
Runs(cmd, streaming) ==
  \/ exec.pc = "idle" /\ exec.tool = "none" /\ cmd \in Commands
  \/ /\ exec.pc = "built"
     /\ cmd \in finalCommands(exec.tool, exec.action, exec.script)
     /\ useStreaming(exec.tool, cmd, exec.action) = streaming

\* A tool is called. executePackageScript checks the script before its
\* first await (discoverWorkspaces); executeDockerCommand and
\* executeComposeCommand await getDockerCapabilities first.
ToolCall ==
  \E tool \in Tools :
    \E action \in ToolActions(tool), script \in ToolScripts(tool), args \in ToolArgLists :
      /\ exec.pc = "idle"
      /\ exec.tool = "none"
      /\ exec' = IF tool = "package" /\ packageCheck(script) # "ok"
                 THEN [exec EXCEPT !.tool = tool, !.action = action, !.script = script,
                                   !.args = args, !.pc = "done",
                                   !.reply = packageCheck(script)]
                 ELSE [exec EXCEPT !.tool = tool, !.action = action, !.script = script,
                                   !.args = args, !.pc = "detect"]
      /\ UNCHANGED <<registryVars, probe, dop>>

\* The detection settles. detectDockerCapabilities swallows its errors, so
\* docker and compose see docker there or not; a workspace discovery that
\* throws is caught by executePackageScript. Docker or the script not
\* being there is a text; otherwise docker and compose build the command.
ToolBuild ==
  \E detected \in Detections :
    /\ exec.pc = "detect"
    /\ detected = "fails" => exec.tool = "package"
    /\ exec' =
         IF detected = "fails"
         THEN [exec EXCEPT !.pc = "done", !.reply = "error"]
         ELSE IF detected = "unavailable"
         THEN [exec EXCEPT !.pc = "done", !.reply = "unavailable"]
         ELSE IF exec.tool # "package" /\ buildCommand(exec.action, exec.args) # "ok"
         THEN [exec EXCEPT !.pc = "done", !.reply = buildCommand(exec.action, exec.args)]
         ELSE [exec EXCEPT !.pc = "built"]
    /\ UNCHANGED <<registryVars, probe, dop>>

\* executeCommand up to its await of Promise.race: a spawn that throws is
\* caught and returned as exit code -1; the timeout timer is always set.
ExecBuffered ==
  \E cmd \in Commands \cup {"doppler"}, spawns \in BOOLEAN :
    /\ Runs(cmd, FALSE)
    /\ exec' = Settle(
               IF spawns
               THEN [exec EXCEPT !.mode = "buffered", !.command = cmd, !.pc = "race",
                                 !.st = "alive", !.timers = {"timeout"}]
               ELSE [exec EXCEPT !.mode = "buffered", !.command = cmd, !.pc = "done",
                                 !.spawnFailed = TRUE,
                                 !.outcome = [kind |-> "result", exitCode |-> -1,
                                              err |-> "spawn"]])
    /\ UNCHANGED <<registryVars, probe, dop>>

\* The executor of executeWithStreaming's promise: a spawn that throws in
\* it rejects the promise; the timeout timer is set when a timeout is given.
ExecStreaming ==
  \E cmd \in Commands \cup {"doppler"}, spawns \in BOOLEAN, timeout \in BOOLEAN :
    /\ Runs(cmd, TRUE)
    /\ exec.tool # "none" => timeout
    /\ exec' = Settle(
               IF spawns
               THEN [exec EXCEPT !.mode = "streaming", !.command = cmd, !.pc = "running",
                                 !.st = "alive",
                                 !.timers = IF timeout THEN {"timeout"} ELSE {}]
               ELSE [exec EXCEPT !.mode = "streaming", !.command = cmd, !.pc = "done",
                                 !.spawnFailed = TRUE,
                                 !.outcome = [kind |-> "rejected", exitCode |-> 0,
                                              err |-> "spawn"]])
    /\ UNCHANGED <<registryVars, probe, dop>>

\* The command ends on its own.
ExecDie ==
  \E code \in ExitCodes :
    /\ exec.st = "alive"
    /\ exec' = [exec EXCEPT !.st = "dead", !.code = code]
    /\ UNCHANGED <<registryVars, probe, dop>>

\* The timeout timer fires. Buffered: timeoutPromise rejects, the race is
\* lost and the catch returns exit code -1; the subprocess is not touched.
\* Streaming: isTimedOut, proc.kill() and the 5 s force-kill timer; the exit
\* code of a signalled process is never read, the promise rejects.
ExecTimeout ==
  \E hon \in BOOLEAN :
    /\ "timeout" \in exec.timers
    /\ exec' = Settle(
         IF exec.mode = "buffered"
         THEN IF exec.pc = "race"
              THEN [exec EXCEPT !.timers = {}, !.pc = "done",
                                !.outcome = [kind |-> "result", exitCode |-> -1,
                                             err |-> "timeout"]]
              ELSE [exec EXCEPT !.timers = {}]
         ELSE [exec EXCEPT !.timers = {"force"}, !.isTimedOut = TRUE, !.termSent = TRUE,
                           !.st = IF exec.st = "alive" /\ hon THEN "dead" ELSE exec.st])
    /\ UNCHANGED <<registryVars, probe, dop>>

\* The force-kill timer of the streaming executor fires.
ExecForce ==
  /\ "force" \in exec.timers
  /\ exec' = IF exec.st # "exited"
             THEN [exec EXCEPT !.timers = {}, !.killSent = TRUE,
                               !.st = IF exec.st = "alive" THEN "dead" ELSE exec.st]
             ELSE [exec EXCEPT !.timers = {}]
  /\ UNCHANGED <<registryVars, probe, dop>>

\* The runtime delivers the exit: proc.exited resolves. Buffered: the race
\* is won with the exit code unless it is over. Streaming: clearTimeout,
\* then reject when isTimedOut, else resolve with the exit code.
ExecExited ==
  /\ exec.st = "dead"
  /\ exec' = Settle(
       IF exec.mode = "buffered"
       THEN IF exec.pc = "race"
            THEN [exec EXCEPT !.st = "exited", !.pc = "done",
                              !.outcome = [kind |-> "result", exitCode |-> exec.code,
                                           err |-> "none"]]
            ELSE [exec EXCEPT !.st = "exited"]
       ELSE [exec EXCEPT !.st = "exited", !.pc = "done",
                         !.timers = exec.timers \ {"timeout"},
                         !.outcome = IF exec.isTimedOut
                                     THEN [kind |-> "rejected", exitCode |-> 0,
                                           err |-> "timeout"]
                                     ELSE [kind |-> "result", exitCode |-> exec.code,
                                           err |-> "none"]])
  /\ UNCHANGED <<registryVars, probe, dop>>

ExecNext ==
  \/ ToolCall
  \/ ToolBuild
  \/ ExecBuffered
  \/ ExecStreaming
  \/ ExecDie
  \/ ExecTimeout
  \/ ExecForce
  \/ ExecExited

ExecSpec == Init /\ [][ExecNext]_vars

\* ---------------------------------------------------------------- claims
\* The process spawned for a pair, if one is alive.
LiveFor(t) == {p \in Pids : procs[p].st = "alive" /\ <<procs[p].script, procs[p].cwd>> = t}

\* The pid a devStart for the pair must report as already running: the one
\* the last devStart returned, while that process is alive and no stop or
\* restart was called for the pair.
Expect(t) == IF started[t] # 0 /\ procs[started[t]].st = "alive" THEN started[t] ELSE 0

PastCheck(c) == c.op = "start" /\ c.pc \in {"pm", "doppler"}

\* C1: of two overlapping devStart calls for the same (script, cwd), at most
\* one is past the existence check of executeDevStart (the other one has
\* returned "already running"), so they never both spawn.
C1_OneStartPassesCheck ==
  \A i \in Slots : \A j \in Slots \ {i} :
    PastCheck(calls[i]) /\ PastCheck(calls[j])
      => <<calls[i].dev, calls[i].cwd>> # <<calls[j].dev, calls[j].cwd>>

\* C2: a devStart for a pair whose previous devStart has returned a pid, with
\* that process still alive and no stop in between, never passes the
\* existence check: it returns "already running" and spawns nothing.
C2_SecondStartAlreadyRunning ==
  [][\A i \in Slots :
       (/\ calls[i].pc \in {"idle", "manifest"}
        /\ PastCheck(calls'[i]) /\ calls'[i].pc = "pm")
         => Expect(<<calls'[i].dev, calls'[i].cwd>>) = 0]_vars

\* C3: a process that has ended without a devStop or devRestart awaiting it
\* (it was killed externally or crashed) is not listed by the next
\* devStatus: its sweep removes the record.
C3_StatusListsOnlyLive ==
  \A p \in StatusListing(World) :
    (\A i \in Slots : ~(calls[i].pc = "wait" /\ calls[i].h = p))
      => procs[p].st = "alive"

\* C4: right after the liveness sweep a record exists for a (script, cwd)
\* exactly when a subprocess spawned for it is alive.
C4_SweptRegistryMatchesLiveness ==
  \A t \in Pairs :
    (\E k \in KeyStrs : LET r == cleanupRegistry(World).db[k]
                         IN r # NoRow /\ <<r.script, r.cwd>> = t)
      <=> LiveFor(t) # {}

\* C11: a devStart for a key whose handle the registry held, with that
\* process still running, never passes the existence check: no devQuery
\* before it makes the registry lose the handle.
C11_QueryKeepsHandles ==
  [][\A i \in Slots :
       (/\ calls[i].pc \in {"idle", "manifest"}
        /\ PastCheck(calls'[i]) /\ calls'[i].pc = "pm")
         => LET k == getProcessKey(calls'[i].dev, calls'[i].cwd)
            IN objects[k] = 0 \/ ~isProcessRunning(procs, objects[k])]_vars

\* C12: every subprocess that was spawned runs a script whose name the
\* script-name validator and the script guardrail accept.
C12_SpawnOnlyValidatedScript ==
  \A p \in Pids :
    procs[p].st # "unborn" =>
      /\ validateScriptName(procs[p].script)
      /\ checkScriptGuardrails(procs[p].script, DEFAULT_SECURITY_CONFIG).allowed

\* A devStart with no script, alone and on an empty registry, is about to
\* spawn the dev script its project declares.
LifecycleStart(i) ==
  /\ calls[i].op = "start" /\ calls[i].script = NoScript
  /\ calls[i].pc = "doppler"
  /\ Manifest(calls[i].cwd) = {<<"dev">>}
  /\ \A k \in KeyStrs : db[k] = NoRow /\ objects[k] = 0
  /\ \A j \in Slots \ {i} : ~InFlight(calls[j])

\* C13: when that devStart spawns, the registry holds exactly one record,
\* keyed (dev, projectDir), with a positive pid; a devStatus made then lists
\* exactly that pid; a devStop with no script made then signals and counts
\* one server; and after it the registry is empty, which devStatus reports
\* as no servers running.
C13_Lifecycle ==
  [][\A i \in Slots :
       (LifecycleStart(i) /\ nextPid' = nextPid + 1) =>
         LET W1 == [db |-> db', objects |-> objects', procs |-> procs']
             cwd == calls[i].cwd
             k == getProcessKey(<<"dev">>, cwd)
             swept == cleanupRegistry(W1)
         IN /\ calls'[i] = IdleCall
            /\ getAllProcesses(W1) = {k}
            /\ W1.db[k].script = <<"dev">> /\ W1.db[k].cwd = cwd
            /\ W1.db[k].pid > 0
            /\ StatusListing(W1) = {W1.db[k].pid}
            /\ stoppedCount(swept, getAllProcesses(swept)) = 1
            /\ \A hon \in SUBSET Pids :
                 LET s == StopEnter(W1, NewCall("stop", NoScript, cwd), hon)
                     W3 == cleanupRegistry(StopAllForce(s.w, s.c))
                 IN /\ s.c.pc = "grace"
                    /\ getAllProcesses(W3) = {}
                    /\ StatusListing(W3) = {}]_vars

\* The devStart of the lifecycle is about to spawn.
C13_Witness ==
  \E i \in Slots : LifecycleStart(i) /\ nextPid <= MaxPid

\* The script a devStart with no script must pick from a manifest.
FirstDevScript(S) ==
  IF <<"dev">> \in S THEN <<"dev">>
  ELSE IF <<"start">> \in S THEN <<"start">>
  ELSE IF <<"serve">> \in S THEN <<"serve">>
  ELSE IF <<"develop">> \in S THEN <<"develop">>
  ELSE NoScript

C18_ToolReplyIsText == exec.reply # "thrown"

\* C19: checkOperationGuardrails decides in this order: blocked in
\* read-only mode for a read-only-blocked action; else, for a destructive
\* operation, blocked if blockDangerous, else confirmation-required if
\* requireConfirmation, else allowed; else confirmation-required for build,
\* run, exec and system when requireConfirmation; else allowed. Under the
\* default config rm, down and stop need confirmation, and ps and logs
\* without arguments are allowed.
C19_GuardrailOrder ==
  probe.fn = "guardrails" =>
    LET action == probe.in.action
        args == probe.in.args
        config == probe.in.config
        expected ==
          IF config.readOnlyMode /\ action \in READ_ONLY_BLOCKED_ACTIONS
          THEN Blocked
          ELSE IF isDestructiveOperation(action, args)
          THEN (IF config.blockDangerous THEN Blocked
                ELSE IF config.requireConfirmation THEN NeedsConfirmation
                ELSE Allowed)
          ELSE IF action \in {"build", "run", "exec", "system"}
                  /\ config.requireConfirmation
          THEN NeedsConfirmation
          ELSE Allowed
    IN /\ probe.out = expected
       /\ (config = DEFAULT_SECURITY_CONFIG /\ action \in {"rm", "down", "stop"})
            => probe.out = NeedsConfirmation
       /\ (config = DEFAULT_SECURITY_CONFIG /\ action \in {"ps", "logs"} /\ args = <<>>)
            => probe.out = Allowed

\* A destructive and privileged action under a config that blocks it.
C19_Witness ==
  /\ probe.fn = "guardrails"
  /\ probe.in.action = "system"
  /\ probe.in.config.blockDangerous
  /\ probe.in.config.requireConfirmation
  /\ ~probe.in.config.readOnlyMode
  /\ probe.out = Blocked

\* C16: when a one-shot command has completed with the timeout error, the
\* graceful signal was sent and the subprocess is not left running.
C16_TimeoutEndsSubprocess ==
  (exec.outcome.kind # "pending" /\ exec.outcome.err = "timeout")
    => exec.termSent /\ exec.st # "alive"

\* C17: a command that could not be spawned completes with a result whose
\* exit code is -1 and whose error stream holds the error, never with a
\* rejected promise.
C17_SpawnFailureIsResult ==
  exec.spawnFailed =>
    /\ exec.outcome.kind = "result"
    /\ exec.outcome.exitCode = -1
    /\ exec.outcome.err = "spawn"

\* The guardrails evaluate the operation of the tool call as
\* confirmation-required.
ConfirmationRequired(e) ==
  IF e.tool = "package"
  THEN validateScriptName(e.script)
       /\ checkScriptGuardrails(e.script, DEFAULT_SECURITY_CONFIG) = NeedsConfirmation
  ELSE e.tool # "none"
       /\ checkOperationGuardrails(e.action, <<>>, DEFAULT_SECURITY_CONFIG) = NeedsConfirmation

\* C20: a confirmation-required operation invoked without the override is
\* not executed and returns the 'Security Warning' text, which is neither
\* the 'Invalid ...' nor the 'Security: ...' one; invoked with the override
\* it is not stopped by the warning.
C20_OverrideProceeds ==
  /\ (exec.reply = "warning" => ConfirmationRequired(exec) /\ exec.st = "none")
  /\ (ConfirmationRequired(exec) /\ exec.args = <<>> /\ exec.pc \in {"done", "built"})
       => exec.reply \in {"warning", "unavailable"}
  /\ (ConfirmationRequired(exec) /\ exec.args = <<ArgConfirm>>)
       => exec.reply # "warning"

\* C21: validateArgument rejects, with a reason, every input that is
\* empty or not a string, longer than the maximum, holds a blacklisted
\* shell metacharacter or matches an injection signature; it accepts every
\* other input with the trimmed input as sanitized value, which holds no
\* blacklisted metacharacter.
C21_ArgumentValidation ==
  probe.fn = "argument" =>
    LET arg == probe.in.arg
        rejected ==
          \/ arg.type # "string"
          \/ arg.chars = <<>>
          \/ Len(arg.chars) > probe.in.maxLength
          \/ \E d \in DANGEROUS_SHELL_CHARS : includes(arg.chars, d)
          \/ matchesInjection(arg.chars)
    IN /\ probe.out.valid = ~rejected
       /\ ~probe.out.valid => probe.out.error # "none"
       /\ probe.out.valid =>
            /\ probe.out.sanitized = trim(arg.chars)
            /\ \A d \in DANGEROUS_SHELL_CHARS : ~includes(probe.out.sanitized, d)

\* An argument with blanks around it is accepted and trimmed.
C21_Witness ==
  /\ probe.fn = "argument"
  /\ probe.in.arg = Str(<<" ", "a", " ">>)
  /\ probe.out = Valid(<<"a">>)

\* The path has a ".." segment: ".." between separators or the ends.
hasTraversal(chars) ==
  \E i \in 1..(Len(chars) - 1) :
    /\ SubSeq(chars, i, i + 1) = <<".", ".">>
    /\ i = 1 \/ chars[i - 1] \in {"/", "\\"}
    /\ i + 1 = Len(chars) \/ chars[i + 2] \in {"/", "\\"}

\* The path is a sensitive root (the part of a dangerous path ahead of its
\* closing slash) or lies under one.
underSensitiveRoot(chars) ==
  \E n \in 1..(Len(DANGEROUS_PATHS) - 2) :
    LET root == SubSeq(DANGEROUS_PATHS[n], 1, Len(DANGEROUS_PATHS[n]) - 1)
    IN chars = root \/ startsWith(chars, root \o <<"/">>)

\* C22: validateFilePath rejects every path that holds a directory
\* traversal, is a sensitive root or lies under one, holds a null byte or is
\* longer than 500 characters; it accepts any other path and returns it
\* with its separators normalized.
C22_FilePathValidation ==
  probe.fn = "filePath" =>
    LET chars == probe.in.chars
        rejected ==
          \/ hasTraversal(chars)
          \/ underSensitiveRoot(normalizePath(chars))
          \/ includes(chars, <<Nul>>)
          \/ Len(chars) > MaxFilePathLen
    IN /\ probe.out.valid = ~rejected
       /\ probe.out.valid => probe.out.sanitized = normalizePath(chars)

\* C23: validateDockerArgs rejects every list that fails the list
\* validation, uses a blacklisted privilege-escalation flag or has a volume
\* flag whose host path fails validateFilePath; it accepts every other list
\* and returns its elements trimmed, in their order, so an accepted list
\* holds no blacklisted flag.
C23_DockerArgsValidation ==
  probe.fn = "dockerArgs" =>
    LET args == probe.in
        rejected ==
          \/ Len(args) > MaxArguments
          \/ \E n \in 1..Len(args) : ~validateArgument(args[n], MaxArgumentLen).valid
          \/ \E n \in 1..Len(args) : trim(args[n].chars) \in DANGEROUS_DOCKER_ARGS
          \/ \E n \in 1..Len(args) :
               /\ \/ startsWith(args[n].chars, <<"-", "v">>)
                  \/ startsWith(args[n].chars, <<"-", "-", "v", "o", "l", "u", "m", "e">>)
               /\ volumeHostPath(args[n].chars) # <<>>
               /\ ~validateFilePath(Str(volumeHostPath(args[n].chars))).valid
    IN /\ probe.out.valid = ~rejected
       /\ probe.out.valid =>
            /\ Len(probe.out.sanitized) = Len(args)
            /\ \A n \in 1..Len(args) :
                 /\ probe.out.sanitized[n] = trim(args[n].chars)
                 /\ probe.out.sanitized[n] \notin DANGEROUS_DOCKER_ARGS

\* C24: checkDockerVolumeMounts blocks every list that mounts a host path
\* starting with the docker socket or a system root, written as one element
\* (-v=host:ctr) or as a -v or --volume element followed by host:ctr;
\* otherwise it requires confirmation when a container path is / or a
\* system path; it allows every other list.
C24_VolumeMountsBlocked ==
  probe.fn = "volumeMounts" =>
    LET args == probe.in
        mounts ==
          {args[n].chars : n \in {k \in 1..Len(args) : isVolumeMount(args[k].chars)}}
            \cup {<<"-", "v", "=">> \o args[n + 1].chars :
                    n \in {k \in 1..(Len(args) - 1) :
                             /\ args[k].chars \in {<<"-", "v">>,
                                                   <<"-", "-", "v", "o", "l", "u", "m", "e">>}
                             /\ isVolumeMount(<<"-", "v", "=">> \o args[k + 1].chars)}}
        blocked ==
          \E mt \in mounts, d \in dangerousHostPaths : startsWith(volumeHostPath(mt), d)
        confirmed ==
          \E mt \in mounts :
            \/ volumeContainerPath(mt) = <<"/">>
            \/ startsWith(volumeContainerPath(mt), <<"/", "e", "t", "c">>)
            \/ startsWith(volumeContainerPath(mt), <<"/", "v", "a", "r">>)
    IN probe.out = IF blocked THEN Blocked
                   ELSE IF confirmed THEN NeedsConfirmation
                   ELSE Allowed

\* C25: the sweep removes exactly the records whose process is no longer
\* alive, never the record of a process that is still running (signalled or
\* not), and a second sweep changes nothing.
C25_SweepRemovesExactlyDead ==
  LET W1 == cleanupRegistry(World)
  IN /\ \A k \in KeyStrs :
          db[k] # NoRow => ((W1.db[k] = NoRow) <=> procs[db[k].pid].st # "alive")
     /\ cleanupRegistry(W1) = W1

\* C26: a devRestart with no script starts each remembered record again
\* under the (script, working directory) key it had before.
C26_RestartAllSameKeys ==
  \A i \in Slots :
    (calls[i].op = "restart" /\ calls[i].script = NoScript
       /\ calls[i].pc \in {"pm", "doppler"})
      => getProcessKey(calls[i].dev, calls[i].cwd) \in {r.id : r \in calls[i].rows}

\* C27: when the exit of a process is delivered and no devStop awaits it,
\* the record and the handle of every other process stay in the registry.
C27_ExitKeepsNewerRecord ==
  [][\A p \in Pids, k \in KeyStrs :
       (/\ procs[p].st = "dead"
        /\ procs'[p].st = "exited"
        /\ objects[k] \notin {0, p}
        /\ \A i \in Slots : ~(calls[i].pc = "wait" /\ calls[i].h = p))
         => objects'[k] = objects[k] /\ db'[k] = db[k]]_vars

\* C28: when no registry operation is in flight, the table and the handle
\* map hold the same keys, and each row's pid is the pid of its handle.
C28_StoresInSync ==
  (\A i \in Slots : ~InFlight(calls[i]))
    => \A k \in KeyStrs : /\ (db[k] # NoRow) <=> (objects[k] # 0)
                          /\ db[k].pid = objects[k]

\* C29: in read-only mode checkOperationGuardrails never allows an
\* operation that isDestructiveOperation classifies as destructive, by its
\* action or by a force flag among its arguments.
C29_ReadOnlyBlocksDestructive ==
  (/\ probe.fn = "guardrails"
   /\ probe.in.config.readOnlyMode
   /\ isDestructiveOperation(probe.in.action, probe.in.args))
    => ~probe.out.allowed

\* C30: a wrapWithDoppler call decides from the capabilities of its own
\* directory, whatever is cached or in flight for another directory.
C30_OwnDirectoryDecides ==
  \A i \in Slots :
    (dop.calls[i].pc = "done" /\ ~dop.calls[i].skipDoppler)
      => dop.calls[i].wrapped =
           wrapDecision(detectDopplerCapabilities(dop.calls[i].dir), dop.calls[i].action)

\* The restart of a running script, after its stop phase.
Restarting(c) ==
  c.op = "restart" /\ c.old # 0 /\ c.pc \in {"settle", "manifest", "pm", "doppler"}

C6_SingleStopCompletes ==
  \A i \in Slots :
    (calls[i].op = "stop" /\ calls[i].pc = "wait") ~> (calls[i].pc # "wait")

\* C7: after the grace window of a bulk devStop, its force-kill loop leaves
\* none of the processes it unregistered alive.
C7_BulkStopKillsSurvivors ==
  \A i \in Slots :
    calls[i].pc = "grace" =>
      \A r \in calls[i].rows :
        StopAllForce(World, calls[i]).procs[r.pid].st # "alive"

\* C8: the rows a bulk devStop signals and unregisters are those of the
\* call's working directory.
C8_BulkStopOwnDirectory ==
  \A i \in Slots :
    calls[i].op = "stop" /\ calls[i].pc = "grace" =>
      \A r \in calls[i].rows : r.cwd = calls[i].cwd

\* C9: after a single devStop and a devStart for the same key overlapped,
\* once every call has returned and every exit has been delivered, the key
\* has a record exactly when a process spawned for it is alive.
C9_StopStartOverlapConsistent ==
  (/\ raced # NoKey
   /\ \A i \in Slots : ~InFlight(calls[i])
   /\ \A p \in Pids : procs[p].st # "dead")
    => (db[raced] # NoRow
          <=> \E p \in Pids : /\ procs[p].st = "alive"
                               /\ getProcessKey(procs[p].script, procs[p].cwd) = raced)

\* C10: a single devStop signals and awaits only a process that was spawned
\* for its own (script, cwd): it never touches another pair's process.
C10_StopOwnPairOnly ==
  \A i \in Slots :
    calls[i].op = "stop" /\ calls[i].pc = "wait" =>
      <<procs[calls[i].h].script, procs[calls[i].h].cwd>>
        = <<calls[i].script, calls[i].cwd>>

====
